---- MODULE Spec2Model ----
(***************************************************************************)
(* A model of microfs (src/microfs.py): the raw-REPL handshake (raw_on,    *)
(* raw_off), the command executor (execute), the error normaliser          *)
(* (clean_error) and the file operations (ls, rm, put, get), run against a *)
(* serial transport whose far end is either a MicroPython device following *)
(* the raw-REPL protocol or a device that may send anything.               *)
(*                                                                         *)
(* Bytes and characters are natural numbers; byte strings and texts are    *)
(* sequences of them.                                                      *)
(***************************************************************************)
EXTENDS Integers, Sequences, FiniteSets, TLC

\* ------------------------------------------------------------------------
\* Bounds of the model
\* ------------------------------------------------------------------------

\* number of operations a run of the model starts one after another
MaxOps == 2
\* longest prefix of "interesting" bytes in a local file's content
MaxPrefix == 1
\* longest input given to clean_error on its own
MaxErrLen == 5

\* ------------------------------------------------------------------------
\* Protocol bytes and delimiters (src/microfs.py)
\* ------------------------------------------------------------------------

CTRL_A == 1
CTRL_B == 2
CTRL_C == 3
CTRL_D == 4
\* b'\n>>>'
REPL_PROMPT == <<10, 62, 62, 62>>
\* b'\r\n>'
RAW_PROMPT == <<13, 10, 62>>
\* b'\x04>'
END_MARKER == <<4, 62>>
\* size of a fragment of a statement written to the transport
FRAGMENT == 32
\* the chunk of put taken to be as long as a fragment of execute
CHUNK_AsFragment == FRAGMENT
\* size of a chunk of file content carried by one statement of put
CHUNK == 64
\* as many attempts as a fragment has bytes
ATTEMPTS_AsFragment == FRAGMENT
\* attempts raw_on makes to reach the interactive prompt
ATTEMPTS == 3

\* ------------------------------------------------------------------------
\* Byte-string helpers (Python's bytes/str methods used by the code)
\* ------------------------------------------------------------------------

Min(a, b) == IF a < b THEN a ELSE b

\* s[i:] for 0 <= i
DropFirst(s, i) == SubSeq(s, i + 1, Len(s))

\* s[:i] for 0 <= i
TakeFirst(s, i) == SubSeq(s, 1, Min(i, Len(s)))

\* bytes.endswith
EndsWith(s, t) ==
    /\ Len(t) <= Len(s)
    /\ SubSeq(s, Len(s) - Len(t) + 1, Len(s)) = t

StartsWith(s, t) ==
    /\ Len(t) <= Len(s)
    /\ SubSeq(s, 1, Len(t)) = t

\* bytes.find, 1-based; 0 when t does not occur in s
Find(s, t) ==
    LET hits == {i \in 1..(Len(s) - Len(t) + 1) : SubSeq(s, i, i + Len(t) - 1) = t}
    IN  IF hits = {} THEN 0 ELSE CHOOSE i \in hits : \A j \in hits : i <= j

\* t in s
Contains(s, t) == Find(s, t) # 0

\* bytes.split(sep, 1): one element when sep does not occur, else two
Split1(s, sep) ==
    LET i == Find(s, sep)
    IN  IF i = 0 THEN <<s>>
        ELSE <<SubSeq(s, 1, i - 1), SubSeq(s, i + Len(sep), Len(s))>>

\* response[2:-2]
StripStatusAndMarker(response) == SubSeq(response, 3, Len(response) - 2)

\* str.split(sep): every piece between occurrences of sep
RECURSIVE SplitAll(_, _)
SplitAll(s, sep) ==
    LET i == Find(s, sep)
    IN  IF i = 0 THEN <<s>>
        ELSE <<SubSeq(s, 1, i - 1)>> \o SplitAll(SubSeq(s, i + Len(sep), Len(s)), sep)

Range(s) == {s[i] : i \in 1..Len(s)}

\* the concatenation of a sequence of sequences (b''.join), by halves
RECURSIVE Flatten(_)
Flatten(ss) ==
    IF Len(ss) = 0 THEN <<>>
    ELSE IF Len(ss) = 1 THEN ss[1]
    ELSE Flatten(SubSeq(ss, 1, Len(ss) \div 2))
         \o Flatten(SubSeq(ss, (Len(ss) \div 2) + 1, Len(ss)))

\* one character of str.upper (ASCII letters)
UpperChar(c) == IF c \in 97..122 THEN c - 32 ELSE c

\* str.upper
Upper(s) == [i \in 1..Len(s) |-> UpperChar(s[i])]

\* ------------------------------------------------------------------------
\* UTF-8 (str.encode('utf-8') and bytes.decode('utf-8'))
\* ------------------------------------------------------------------------

\* the bytes of one code point
Utf8Char(cp) ==
    IF cp < 128 THEN <<cp>>
    ELSE IF cp < 2048 THEN <<192 + (cp \div 64), 128 + (cp % 64)>>
    ELSE IF cp < 65536
         THEN <<224 + (cp \div 4096), 128 + ((cp \div 64) % 64), 128 + (cp % 64)>>
    ELSE <<240 + (cp \div 262144), 128 + ((cp \div 4096) % 64),
           128 + ((cp \div 64) % 64), 128 + (cp % 64)>>

Utf8Encode(text) == Flatten([i \in 1..Len(text) |-> Utf8Char(text[i])])

\* length of the sequence a lead byte announces, 0 for an invalid lead byte
Utf8SeqLen(b) ==
    IF b < 128 THEN 1
    ELSE IF b \in 194..223 THEN 2
    ELSE IF b \in 224..239 THEN 3
    ELSE IF b \in 240..244 THEN 4
    ELSE 0

\* the values the byte after lead byte b may take
Utf8SecondRange(b) ==
    IF b = 224 THEN 160..191
    ELSE IF b = 237 THEN 128..159
    ELSE IF b = 240 THEN 144..191
    ELSE IF b = 244 THEN 128..143
    ELSE 128..191

\* is there a well-formed sequence at position i of s
Utf8SeqOk(s, i) ==
    LET n == Utf8SeqLen(s[i])
    IN  /\ n > 0
        /\ i + n - 1 <= Len(s)
        /\ n >= 2 => s[i + 1] \in Utf8SecondRange(s[i])
        /\ \A k \in (i + 2)..(i + n - 1) : s[k] \in 128..191

\* the code point of the well-formed sequence at position i of s
Utf8Point(s, i) ==
    LET n == Utf8SeqLen(s[i])
    IN  IF n = 1 THEN s[i]
        ELSE IF n = 2 THEN (s[i] - 192) * 64 + (s[i + 1] - 128)
        ELSE IF n = 3
             THEN (s[i] - 224) * 4096 + (s[i + 1] - 128) * 64 + (s[i + 2] - 128)
        ELSE (s[i] - 240) * 262144 + (s[i + 1] - 128) * 4096
             + (s[i + 2] - 128) * 64 + (s[i + 3] - 128)

\* a byte that continues a sequence
Utf8Continuation(b) == b \in 128..191

\* can bytes.decode('utf-8') decode s (it raises UnicodeDecodeError
\* otherwise): every byte that is not a continuation opens a well-formed
\* sequence, and every continuation byte belongs to one
Utf8Decodable(s) ==
    \A i \in 1..Len(s) :
        IF Utf8Continuation(s[i])
        THEN \E j \in 1..(i - 1) :
                /\ ~Utf8Continuation(s[j])
                /\ \A k \in (j + 1)..i : Utf8Continuation(s[k])
                /\ i <= j + Utf8SeqLen(s[j]) - 1
        ELSE Utf8SeqOk(s, i)

\* bytes.decode('utf-8') of a decodable s
Utf8Decode(s) ==
    Flatten([i \in 1..Len(s) |->
                IF Utf8Continuation(s[i]) THEN <<>> ELSE <<Utf8Point(s, i)>>])

\* ------------------------------------------------------------------------
\* repr of a bytes object (the literal put sends to the device)
\* ------------------------------------------------------------------------

HexDigit(n) == IF n < 10 THEN 48 + n ELSE 87 + n

\* the quote repr chooses: " when the bytes hold ' and no ", else '
ReprQuote(s) == IF 39 \in Range(s) /\ 34 \notin Range(s) THEN 34 ELSE 39

ReprByte(c, q) ==
    IF c = q \/ c = 92 THEN <<92, c>>
    ELSE IF c = 9 THEN <<92, 116>>
    ELSE IF c = 10 THEN <<92, 110>>
    ELSE IF c = 13 THEN <<92, 114>>
    ELSE IF c < 32 \/ c >= 127 THEN <<92, 120, HexDigit(c \div 16), HexDigit(c % 16)>>
    ELSE <<c>>

ReprBody(s, q) == Flatten([i \in 1..Len(s) |-> ReprByte(s[i], q)])

\* repr(line): b'...'
Repr(s) == <<98, ReprQuote(s)>> \o ReprBody(s, ReprQuote(s)) \o <<ReprQuote(s)>>

\* ------------------------------------------------------------------------
\* Texts of the program (src/microfs.py)
\* ------------------------------------------------------------------------

\* stands for Python's None where a name, a port or a content is expected
None == <<0 - 1>>

\* "VID:PID=0D28:0204"
MICROBIT_ID == <<86, 73, 68, 58, 80, 73, 68, 61, 48, 68, 50, 56, 58, 48, 50, 48, 52>>
\* 'Could not find micro:bit.'
MSG_NOT_FOUND == <<67, 111, 117, 108, 100, 32, 110, 111, 116, 32, 102, 105, 110, 100, 32,
                   109, 105, 99, 114, 111, 58, 98, 105, 116, 46>>
\* 'Could not enter REPL mode.'
MSG_NO_REPL == <<67, 111, 117, 108, 100, 32, 110, 111, 116, 32, 101, 110, 116, 101, 114,
                 32, 82, 69, 80, 76, 32, 109, 111, 100, 101, 46>>
\* 'No such file.'
MSG_NO_FILE == <<78, 111, 32, 115, 117, 99, 104, 32, 102, 105, 108, 101, 46>>
\* 'rm: missing filename. (e.g. "ufs rm foo.txt")'
MSG_RM_USAGE ==
    <<114, 109, 58, 32, 109, 105, 115, 115, 105, 110, 103, 32, 102, 105, 108, 101,
      110, 97, 109, 101, 46, 32, 40, 101, 46, 103, 46, 32, 34, 117, 102, 115, 32, 114,
      109, 32, 102, 111, 111, 46, 116, 120, 116, 34, 41>>
\* 'put: missing filename. (e.g. "ufs put foo.txt")'
MSG_PUT_USAGE ==
    <<112, 117, 116, 58, 32, 109, 105, 115, 115, 105, 110, 103, 32, 102, 105, 108,
      101, 110, 97, 109, 101, 46, 32, 40, 101, 46, 103, 46, 32, 34, 117, 102, 115, 32,
      112, 117, 116, 32, 102, 111, 111, 46, 116, 120, 116, 34, 41>>
\* 'get: missing filename. (e.g. "ufs get foo.txt")'
MSG_GET_USAGE ==
    <<103, 101, 116, 58, 32, 109, 105, 115, 115, 105, 110, 103, 32, 102, 105, 108,
      101, 110, 97, 109, 101, 46, 32, 40, 101, 46, 103, 46, 32, 34, 117, 102, 115, 32,
      103, 101, 116, 32, 102, 111, 111, 46, 116, 120, 116, 34, 41>>
\* 'usage: ': the start of what parser.print_help() prints
MSG_HELP ==
    <<117, 115, 97, 103, 101, 58, 32>>
\* 'There was an error.'
MSG_GENERIC == <<84, 104, 101, 114, 101, 32, 119, 97, 115, 32, 97, 110, 32, 101, 114,
                 114, 111, 114, 46>>

\* 'import os'
STMT_IMPORT_OS == <<105, 109, 112, 111, 114, 116, 32, 111, 115>>
\* 'print(os.listdir())'
STMT_LISTDIR == <<112, 114, 105, 110, 116, 40, 111, 115, 46, 108, 105, 115, 116, 100,
                  105, 114, 40, 41, 41>>
\* "os.remove('{}')".format(filename)
StmtRemove(filename) ==
    <<111, 115, 46, 114, 101, 109, 111, 118, 101, 40, 39>> \o filename \o <<39, 41>>
\* "fd = open('{}', 'wb')".format(target)
StmtOpenWrite(target) ==
    <<102, 100, 32, 61, 32, 111, 112, 101, 110, 40, 39>> \o target
        \o <<39, 44, 32, 39, 119, 98, 39, 41>>
\* 'f = fd.write'
STMT_BIND_WRITE == <<102, 32, 61, 32, 102, 100, 46, 119, 114, 105, 116, 101>>
\* 'f(' + repr(line) + ')'
StmtData(line) == <<102, 40>> \o Repr(line) \o <<41>>
\* 'fd.close()'
STMT_FD_CLOSE == <<102, 100, 46, 99, 108, 111, 115, 101, 40, 41>>
\* 'from microbit import uart'
STMT_IMPORT_UART == <<102, 114, 111, 109, 32, 109, 105, 99, 114, 111, 98, 105, 116, 32,
                      105, 109, 112, 111, 114, 116, 32, 117, 97, 114, 116>>
\* "f = open('{}', 'rb')".format(filename)
StmtOpenRead(filename) ==
    <<102, 32, 61, 32, 111, 112, 101, 110, 40, 39>> \o filename
        \o <<39, 44, 32, 39, 114, 98, 39, 41>>
\* 'r = f.read'
STMT_BIND_READ == <<114, 32, 61, 32, 102, 46, 114, 101, 97, 100>>
\* 'result = True'
STMT_RESULT_TRUE == <<114, 101, 115, 117, 108, 116, 32, 61, 32, 84, 114, 117, 101>>
\* 'while result:\n    result = r(32)\n    if result:\n        uart.write(result)\n'
STMT_READ_LOOP ==
    <<119, 104, 105, 108, 101, 32, 114, 101, 115, 117, 108, 116, 58, 10, 32, 32, 32, 32,
      114, 101, 115, 117, 108, 116, 32, 61, 32, 114, 40, 51, 50, 41, 10, 32, 32, 32, 32,
      105, 102, 32, 114, 101, 115, 117, 108, 116, 58, 10, 32, 32, 32, 32, 32, 32, 32, 32,
      117, 97, 114, 116, 46, 119, 114, 105, 116, 101, 40, 114, 101, 115, 117, 108, 116,
      41, 10>>
\* 'f.close()'
STMT_F_CLOSE == <<102, 46, 99, 108, 111, 115, 101, 40, 41>>

\* ------------------------------------------------------------------------
\* Pure functions of the program
\* ------------------------------------------------------------------------

\* find_microbit returning the first port whatever its descriptor
find_microbit_AnyPort(ports) ==
    IF ports = <<>> THEN None ELSE ports[1][1]

\* find_microbit: the device of the first port whose descriptor, upper-cased,
\* holds the micro:bit's identifier; None when there is none.  A port is
\* <<device, name, descriptor>>.
find_microbit(ports) ==
    LET found == {i \in 1..Len(ports) : Contains(Upper(ports[i][3]), MICROBIT_ID)}
    IN  IF found = {} THEN None
        ELSE ports[CHOOSE i \in found : \A j \in found : i <= j][1]

\* clean_error: does it raise (the decode is outside its try block)
clean_error_raises(err) == err # <<>> /\ ~Utf8Decodable(err)

\* clean_error taking the last piece, [-1], where line 128 takes [-2]
clean_error_LastPiece(err) ==
    IF err # <<>>
    THEN LET decoded == Utf8Decode(err)
             lines == SplitAll(decoded, <<13, 10>>)
         IN  IF Len(lines) >= 2 THEN lines[Len(lines)] ELSE decoded
    ELSE MSG_GENERIC

\* clean_error: the message it returns when it does not raise
clean_error(err) ==
    IF err # <<>>
    THEN LET decoded == Utf8Decode(err)
             lines == SplitAll(decoded, <<13, 10>>)
         IN  IF Len(lines) >= 2 THEN lines[Len(lines) - 1] ELSE decoded
    ELSE MSG_GENERIC

\* os.path.basename
RECURSIVE basename(_)
basename(path) ==
    LET i == Find(path, <<47>>)
    IN  IF i = 0 THEN path ELSE basename(DropFirst(path, i))

\* the data statements put builds: one per chunk of CHUNK bytes
RECURSIVE PutDataStatements(_)
PutDataStatements(content) ==
    IF content = <<>> THEN <<>>
    ELSE <<StmtData(TakeFirst(content, CHUNK))>>
         \o PutDataStatements(DropFirst(content, CHUNK))

\* the batch of put
PutCommands(target, content) ==
    <<StmtOpenWrite(target), STMT_BIND_WRITE>> \o PutDataStatements(content)
        \o <<STMT_FD_CLOSE>>

\* the batch of get
GetCommands(filename) ==
    <<STMT_IMPORT_UART, StmtOpenRead(filename), STMT_BIND_READ, STMT_RESULT_TRUE,
      STMT_READ_LOOP, STMT_F_CLOSE>>

\* the batch of ls
LsCommands == <<STMT_IMPORT_OS, STMT_LISTDIR>>

\* the batch of rm
RmCommands(filename) == <<STMT_IMPORT_OS, StmtRemove(filename)>>

\* ------------------------------------------------------------------------
\* The device: a MicroPython REPL at the far end of the serial link, as the
\* program drives it (control bytes of raw_on, raw_off and execute, the
\* statements of ls, rm, put and get)
\* ------------------------------------------------------------------------

\* names of files on the device: 'f' and 'g'
RemoteNames == {<<102>>, <<103>>}
\* the order in which the device lists its files
RemoteOrder == <<<<102>>, <<103>>>>

\* '\r\n>>> ': what the device prints when interrupted at its interactive prompt
DEV_PROMPT == <<13, 10, 62, 62, 62, 32>>
\* 'raw REPL; CTRL-B to exit\r\n>': printed on entering raw mode
DEV_RAW_BANNER == <<114, 97, 119, 32, 82, 69, 80, 76, 59, 32, 67, 84, 82, 76, 45, 66,
                    32, 116, 111, 32, 101, 120, 105, 116, 13, 10, 62>>
\* '\r\nMicroPython; micro:bit\r\n>>> ': printed on leaving raw mode
DEV_BANNER == <<13, 10, 77, 105, 99, 114, 111, 80, 121, 116, 104, 111, 110, 59, 32,
                109, 105, 99, 114, 111, 58, 98, 105, 116, 13, 10, 62, 62, 62, 32>>
\* 'OK': the status bytes that open the response to a statement
DEV_OK == <<79, 75>>
\* 'Traceback (most recent call last):\r\n  File "<stdin>", line 1, in <module>\r\n'
DEV_TRACEBACK ==
    <<84, 114, 97, 99, 101, 98, 97, 99, 107, 32, 40, 109, 111, 115, 116, 32, 114, 101,
      99, 101, 110, 116, 32, 99, 97, 108, 108, 32, 108, 97, 115, 116, 41, 58, 13, 10,
      32, 32, 70, 105, 108, 101, 32, 34, 60, 115, 116, 100, 105, 110, 62, 34, 44, 32,
      108, 105, 110, 101, 32, 49, 44, 32, 105, 110, 32, 60, 109, 111, 100, 117, 108,
      101, 62, 13, 10>>
\* 'OSError: [Errno 2] ENOENT\r\n'
DEV_ENOENT == <<79, 83, 69, 114, 114, 111, 114, 58, 32, 91, 69, 114, 114, 110, 111, 32,
                50, 93, 32, 69, 78, 79, 69, 78, 84, 13, 10>>
\* 'NameError: name not defined\r\n'
DEV_NAME_ERROR == <<78, 97, 109, 101, 69, 114, 114, 111, 114, 58, 32, 110, 97, 109, 101,
                    32, 110, 111, 116, 32, 100, 101, 102, 105, 110, 101, 100, 13, 10>>
\* "ImportError: no module named 'microbit'\r\n"
DEV_IMPORT_ERROR == <<73, 109, 112, 111, 114, 116, 69, 114, 114, 111, 114, 58, 32, 110,
                      111, 32, 109, 111, 100, 117, 108, 101, 32, 110, 97, 109, 101, 100,
                      32, 39, 109, 105, 99, 114, 111, 98, 105, 116, 39, 13, 10>>
\* 'SyntaxError: invalid syntax\r\n'
DEV_SYNTAX_ERROR == <<83, 121, 110, 116, 97, 120, 69, 114, 114, 111, 114, 58, 32, 105,
                      110, 118, 97, 108, 105, 100, 32, 115, 121, 110, 116, 97, 120, 13, 10>>

HexValue(c) ==
    IF c \in 48..57 THEN c - 48
    ELSE IF c \in 97..102 THEN c - 87
    ELSE IF c \in 65..70 THEN c - 55
    ELSE 0 - 1

\* In the body t of a bytes literal: the number of backslashes that end just
\* before position i
DevBackslashRun(t, i) ==
    LET others == {j \in 1..(i - 1) : t[j] # 92}
    IN  IF others = {} THEN i - 1
        ELSE i - 1 - (CHOOSE j \in others : \A k \in others : k <= j)

\* is the character at i the one an escaping backslash applies to
DevEscaped(t, i) == DevBackslashRun(t, i) % 2 = 1

\* is the character at i one of the two hex digits of a \x escape
DevHexOperand(t, i) ==
    \E j \in {i - 1, i - 2} : j >= 1 /\ t[j] = 120 /\ DevEscaped(t, j)

\* the bytes the character at i of the body contributes
DevLiteralPiece(t, i) ==
    IF DevEscaped(t, i)
    THEN IF t[i] \in {92, 39, 34} THEN <<t[i]>>
         ELSE IF t[i] = 116 THEN <<9>>
         ELSE IF t[i] = 110 THEN <<10>>
         ELSE IF t[i] = 114 THEN <<13>>
         ELSE IF t[i] = 120 THEN <<HexValue(t[i + 1]) * 16 + HexValue(t[i + 2])>>
         ELSE <<92, t[i]>>
    ELSE IF t[i] = 92 \/ DevHexOperand(t, i) THEN <<>>
    ELSE <<t[i]>>

\* is t a well-formed body followed by the closing quote q
DevLiteralBodyOk(t, q) ==
    /\ t # <<>>
    /\ t[Len(t)] = q
    /\ ~DevEscaped(t, Len(t))
    /\ \A i \in 1..(Len(t) - 1) :
          /\ t[i] \notin {10, 13}
          /\ t[i] < 128
          /\ (t[i] = q /\ ~DevHexOperand(t, i)) => DevEscaped(t, i)
          /\ (t[i] = 120 /\ DevEscaped(t, i)) =>
                /\ i + 2 < Len(t)
                /\ HexValue(t[i + 1]) >= 0
                /\ HexValue(t[i + 2]) >= 0

\* the bytes of the body of a bytes literal up to its closing quote q, which
\* must be the last character of t
DevLiteralBody(t, q) ==
    IF DevLiteralBodyOk(t, q)
    THEN [ok |-> TRUE,
          value |-> Flatten([i \in 1..(Len(t) - 1) |-> DevLiteralPiece(t, i)])]
    ELSE [ok |-> FALSE, value |-> <<>>]

\* the value of a bytes literal b'...' or b"..."
DevBytesLiteral(t) ==
    IF Len(t) >= 3 /\ t[1] = 98 /\ t[2] \in {39, 34}
    THEN DevLiteralBody(DropFirst(t, 2), t[2])
    ELSE [ok |-> FALSE, value |-> <<>>]

\* repr of a list of names, as print(os.listdir()) shows it
RECURSIVE DevJoinNames(_)
DevJoinNames(names) ==
    IF names = <<>> THEN <<>>
    ELSE <<39>> \o Head(names) \o <<39>>
         \o (IF Len(names) > 1 THEN <<44, 32>> ELSE <<>>) \o DevJoinNames(Tail(names))

DevListing(fs) ==
    LET Present(n) == fs[n] # None
    IN  <<91>> \o DevJoinNames(SelectSeq(RemoteOrder, Present)) \o <<93, 13, 10>>

\* what evaluating one statement does: the device after it, and the stdout
\* and stderr it prints.  d = [mode, line, fs, fd, rd]: REPL mode, the bytes
\* buffered in raw mode, the files, the name open for writing as fd and the
\* name open for reading as f
DevEval(d, line) ==
    LET Ok(d2, out) == [d |-> d2, out |-> out, err |-> <<>>]
        Fail(msg) == [d |-> d, out |-> <<>>, err |-> DEV_TRACEBACK \o msg]
        arg == SubSeq(line, 3, Len(line) - 1)
    IN  IF line \in {<<>>, Utf8Encode(STMT_IMPORT_OS), Utf8Encode(STMT_RESULT_TRUE)}
        THEN Ok(d, <<>>)
        ELSE IF line = Utf8Encode(STMT_IMPORT_UART)
        THEN IF d.uart THEN Ok(d, <<>>) ELSE Fail(DEV_IMPORT_ERROR)
        ELSE IF line = Utf8Encode(STMT_LISTDIR) THEN Ok(d, DevListing(d.fs))
        ELSE IF \E n \in RemoteNames : line = Utf8Encode(StmtRemove(n))
        THEN LET n == CHOOSE n \in RemoteNames : line = Utf8Encode(StmtRemove(n))
             IN  IF d.fs[n] = None THEN Fail(DEV_ENOENT)
                 ELSE Ok([d EXCEPT !.fs[n] = None], <<>>)
        ELSE IF \E n \in RemoteNames : line = Utf8Encode(StmtOpenWrite(n))
        THEN LET n == CHOOSE n \in RemoteNames : line = Utf8Encode(StmtOpenWrite(n))
             IN  Ok([d EXCEPT !.fs[n] = <<>>, !.fd = n], <<>>)
        ELSE IF line = Utf8Encode(STMT_BIND_WRITE)
        THEN IF d.fd = None THEN Fail(DEV_NAME_ERROR) ELSE Ok(d, <<>>)
        ELSE IF StartsWith(line, <<102, 40>>) /\ EndsWith(line, <<41>>)
                /\ DevBytesLiteral(arg).ok
        THEN IF d.fd = None THEN Fail(DEV_NAME_ERROR)
             ELSE Ok([d EXCEPT !.fs[d.fd] = @ \o DevBytesLiteral(arg).value], <<>>)
        ELSE IF line = Utf8Encode(STMT_FD_CLOSE)
        THEN IF d.fd = None THEN Fail(DEV_NAME_ERROR) ELSE Ok([d EXCEPT !.fd = None], <<>>)
        ELSE IF \E n \in RemoteNames : line = Utf8Encode(StmtOpenRead(n))
        THEN LET n == CHOOSE n \in RemoteNames : line = Utf8Encode(StmtOpenRead(n))
             IN  IF d.fs[n] = None THEN Fail(DEV_ENOENT)
                 ELSE Ok([d EXCEPT !.rd = n], <<>>)
        ELSE IF line = Utf8Encode(STMT_BIND_READ)
        THEN IF d.rd = None THEN Fail(DEV_NAME_ERROR) ELSE Ok(d, <<>>)
        ELSE IF line = Utf8Encode(STMT_READ_LOOP)
        THEN IF d.rd = None THEN Fail(DEV_NAME_ERROR) ELSE Ok(d, d.fs[d.rd])
        ELSE IF line = Utf8Encode(STMT_F_CLOSE)
        THEN IF d.rd = None THEN Fail(DEV_NAME_ERROR) ELSE Ok([d EXCEPT !.rd = None], <<>>)
        ELSE Fail(DEV_SYNTAX_ERROR)

\* the device takes one byte: the device after it and the bytes it prints
DevByte(d, b) ==
    IF d.mode = "interactive"
    THEN IF b = CTRL_C THEN [d |-> d, out |-> DEV_PROMPT]
         ELSE IF b = CTRL_A
              THEN [d |-> [d EXCEPT !.mode = "raw", !.line = <<>>], out |-> DEV_RAW_BANNER]
         ELSE IF b = CTRL_B THEN [d |-> d, out |-> DEV_BANNER]
         ELSE [d |-> d, out |-> <<b>>]
    ELSE IF b = CTRL_C THEN [d |-> [d EXCEPT !.line = <<>>], out |-> <<>>]
         ELSE IF b = CTRL_A THEN [d |-> [d EXCEPT !.line = <<>>], out |-> DEV_RAW_BANNER]
         ELSE IF b = CTRL_B
              THEN [d |-> [d EXCEPT !.mode = "interactive", !.line = <<>>],
                    out |-> DEV_BANNER]
         ELSE IF b = CTRL_D
              THEN LET r == DevEval([d EXCEPT !.line = <<>>], d.line)
                   IN  [d |-> r.d,
                        out |-> DEV_OK \o r.out \o <<CTRL_D>> \o r.err \o <<CTRL_D, 62>>]
         ELSE [d |-> [d EXCEPT !.line = @ \o <<b>>], out |-> <<>>]

\* the device takes the bytes of one write, in order (by halves)
RECURSIVE DevReceive(_, _)
DevReceive(d, bytes) ==
    IF bytes = <<>> THEN [d |-> d, out |-> <<>>]
    ELSE IF Len(bytes) = 1 THEN DevByte(d, bytes[1])
    ELSE LET first == DevReceive(d, SubSeq(bytes, 1, Len(bytes) \div 2))
             rest == DevReceive(first.d, SubSeq(bytes, (Len(bytes) \div 2) + 1, Len(bytes)))
         IN  [out |-> first.out \o rest.out, d |-> rest.d]

\* ------------------------------------------------------------------------
\* The serial transport (pyserial's Serial, as the program calls it)
\* ------------------------------------------------------------------------

\* Serial.read_until(term) on the pending bytes buf: the bytes up to and
\* including the first term, or every pending byte when the timeout elapses
\* without term
ReadUntil(buf, term) ==
    LET i == Find(buf, term)
    IN  IF i = 0 THEN [data |-> buf, rest |-> <<>>]
        ELSE [data |-> TakeFirst(buf, i + Len(term) - 1),
              rest |-> DropFirst(buf, i + Len(term) - 1)]

\* what a device that follows no protocol may send before a read: nothing,
\* a stale byte and the interactive prompt, a stale byte and the raw prompt,
\* responses with stdout 'a' and 'b', a response with stdout 'a' and stderr
\* 'e', a response with stdout 'b' cut short by the timeout inside its
\* stderr, and a response whose stderr is the byte 0xFF, which is not UTF-8
ArbOutputs ==
    { <<>>,
      <<97>> \o DEV_PROMPT,
      <<97>> \o RAW_PROMPT,
      DEV_OK \o <<97, 4, 4, 62>>,
      DEV_OK \o <<98, 4, 4, 62>>,
      DEV_OK \o <<97, 4, 101, 4, 62>>,
      DEV_OK \o <<98, 4, 101, 101>>,
      DEV_OK \o <<4, 255, 4, 62>> }

\* ------------------------------------------------------------------------
\* The local side: ports, files, batches given to execute
\* ------------------------------------------------------------------------

\* the local file put sends: 'd/f'
LOCAL_PATH == <<100, 47, 102>>
\* the local paths of the model: 'd/f', 'f', 'g'
LocalPaths == {LOCAL_PATH, <<102>>, <<103>>}

\* serial ports: another board, and a micro:bit with an upper-case and with a
\* lower-case descriptor
\* <<'/dev/ttyS0', 'n/a', 'USB VID:PID=2341:0043'>>
PORT_OTHER == << <<47, 100, 101, 118, 47, 116, 116, 121, 83, 48>>, <<110, 47, 97>>,
                 <<85, 83, 66, 32, 86, 73, 68, 58, 80, 73, 68, 61, 50, 51, 52, 49, 58,
                   48, 48, 52, 51>> >>
\* <<'/dev/ttyACM0', 'n/a', 'USB VID:PID=0D28:0204 SER=9900'>>
PORT_MICROBIT == << <<47, 100, 101, 118, 47, 116, 116, 121, 65, 67, 77, 48>>,
                    <<110, 47, 97>>,
                    <<85, 83, 66, 32, 86, 73, 68, 58, 80, 73, 68, 61, 48, 68, 50, 56, 58,
                      48, 50, 48, 52, 32, 83, 69, 82, 61, 57, 57, 48, 48>> >>
\* <<'/dev/ttyACM1', 'n/a', 'usb vid:pid=0d28:0204'>>
PORT_MICROBIT_LOWER == << <<47, 100, 101, 118, 47, 116, 116, 121, 65, 67, 77, 49>>,
                          <<110, 47, 97>>,
                          <<117, 115, 98, 32, 118, 105, 100, 58, 112, 105, 100, 61, 48,
                            100, 50, 56, 58, 48, 50, 48, 52>> >>

PortLists ==
    { <<>>, <<PORT_OTHER>>, <<PORT_OTHER, PORT_MICROBIT>>, <<PORT_MICROBIT_LOWER>> }

\* bytes a local file may start with: 0x04, '>', the quote, the backslash, 'a'
ByteAlphabet == {4, 62, 39, 92, 97}

\* lengths of the run of 'a' that follows the first bytes of a local file
PadLengths == {0, CHUNK}

Pad(n) == [i \in 1..n |-> 97]

SeqsUpTo(S, n) == UNION {[1..k -> S] : k \in 0..n}

\* a content of 130 bytes: two full chunks and two bytes, a backslash and a
\* quote
LONG_CONTENT == Pad(2 * CHUNK) \o <<92, 39>>

\* a content that reads as a bytes literal: the 8 characters b'hello'
LITERAL_CONTENT == <<98, 39, 104, 101, 108, 108, 111, 39>>

\* contents of the local file
Contents ==
    {p \o Pad(n) : p \in SeqsUpTo(ByteAlphabet, MaxPrefix), n \in PadLengths}
        \cup {LONG_CONTENT, LITERAL_CONTENT}

\* batches a caller gives to execute directly
ExecBatches ==
    { <<>>,
      << <<>> >>,
      <<STMT_IMPORT_OS, STMT_LISTDIR>>,
      <<STMT_IMPORT_OS, StmtRemove(<<102>>), STMT_LISTDIR>> }

\* ------------------------------------------------------------------------
\* ast.literal_eval on the text ls receives: a list of quoted names
\* ------------------------------------------------------------------------

RECURSIVE LStrip(_)
LStrip(t) == IF t # <<>> /\ Head(t) \in {32, 9} THEN LStrip(Tail(t)) ELSE t

RECURSIVE RStrip(_)
RStrip(t) ==
    IF t # <<>> /\ t[Len(t)] \in {32, 9, 10, 13} THEN RStrip(SubSeq(t, 1, Len(t) - 1))
    ELSE t

IsQuotedName(piece) ==
    /\ Len(piece) >= 2
    /\ piece[1] = 39
    /\ piece[Len(piece)] = 39
    /\ \A i \in 2..(Len(piece) - 1) : piece[i] \notin {39, 92, 10, 13}

ListItems(text) ==
    LET t == RStrip(LStrip(text))
        inner == SubSeq(t, 2, Len(t) - 1)
    IN  IF inner = <<>> THEN <<>> ELSE SplitAll(inner, <<44, 32>>)

\* does literal_eval accept the text as a list of names
literal_eval_ok(text) ==
    LET t == RStrip(LStrip(text))
    IN  /\ Len(t) >= 2
        /\ t[1] = 91
        /\ t[Len(t)] = 93
        /\ \A i \in 1..Len(ListItems(text)) : IsQuotedName(ListItems(text)[i])

\* the items taken as they stand in the text, quotes included
literal_eval_KeepsQuotes(text) == ListItems(text)

\* the list literal_eval returns for an accepted text
literal_eval(text) ==
    [i \in 1..Len(ListItems(text)) |->
        SubSeq(ListItems(text)[i], 2, Len(ListItems(text)[i]) - 1)]

\* ------------------------------------------------------------------------
\* State
\* ------------------------------------------------------------------------

VARIABLES
    ports,          \* the serial ports list_serial_ports shows
    callerSerial,   \* does the caller pass its own Serial to every operation
    dkind,          \* "faithful": a MicroPython device; "arbitrary": any sender
    dev,            \* the device: [mode, line, fs, fd, rd]
    rx,             \* bytes the device has sent and the host has not read
    lfs,            \* local files: path -> content or None
    op,             \* the operation in progress: [name, filename, target]
    pc,             \* where the operation is
    commands,       \* execute: the batch
    idx,            \* execute: index of the current statement
    off,            \* execute: offset i of the next fragment
    attempts_left,  \* raw_on: attempts_left
    result,         \* execute: result
    err,            \* execute: err, None while unbound
    ret,            \* what execute returned: <<stdout, stderr>>
    ownSerial,      \* did execute open the Serial itself
    closeCalls,     \* calls of close() on a Serial execute opened itself
    calls,          \* transport calls of the operation, in order: the bytes
                    \* written or the delimiter read for, where in the program,
                    \* whether a read ended with its delimiter
    resps,          \* the responses read for the statements of the batch
    entered,        \* has raw_on returned normally in this operation
    outcome,        \* how the operation ended
    prev,           \* the operation before this one when it was a put that
                    \* returned, NoOp otherwise
    opsRun,         \* operations started so far
    cli,            \* the command-line process: [active, argv, printed, status]
    lfs0            \* the local files as they were when the operation began

vars == <<ports, callerSerial, dkind, dev, rx, lfs, op, pc, commands, idx, off,
          attempts_left, result, err, ret, ownSerial, closeCalls, calls, resps,
          entered, outcome, prev, opsRun, cli, lfs0>>

envVars == <<ports, callerSerial, dkind, prev, cli, lfs0>>
execVars == <<commands, idx, off, attempts_left, result, err, ret>>

NoOp == [name |-> "none", filename |-> None, target |-> None]
\* the command-line process: whether main runs, its arguments, what it
\* printed, and its exit status: <<>> until it has ended, then <<status>>
NoCli ==
    [active |-> FALSE, argv |-> [command |-> "none", path |-> None, target |-> None],
     printed |-> <<>>, status |-> <<>>]
NoOutcome == [kind |-> "none", value |-> <<>>, msg |-> <<>>]
Returned(v) == [kind |-> "return", value |-> v, msg |-> <<>>]
Raised(k, m) == [kind |-> k, value |-> <<>>, msg |-> m]

DevInit ==
    [mode |-> "interactive", line |-> <<>>, fs |-> [n \in RemoteNames |-> None],
     fd |-> None, rd |-> None, uart |-> TRUE]

\* The inputs: the kind of device, whether the caller supplies the Serial,
\* the ports listed and the local file.  The arbitrary device is driven
\* through a Serial on the micro:bit's port with no local file; the contents
\* of the local file vary in full where the operations open the Serial
\* themselves on a list of two ports, and over {no file, b'a'} elsewhere.
\* The device holds no file, or the file 'g' where the micro:bit's port has
\* the lower-case descriptor; there the device holding 'g' is also one whose
\* firmware has no microbit module (uart = FALSE).
Init ==
    /\ dkind \in {"faithful", "arbitrary"}
    /\ callerSerial \in BOOLEAN
    /\ ports \in (IF callerSerial \/ dkind = "arbitrary" THEN {<<PORT_MICROBIT>>}
                  ELSE PortLists)
    /\ dev \in (IF dkind = "faithful" /\ ports = <<PORT_MICROBIT_LOWER>>
                THEN {DevInit, [DevInit EXCEPT !.fs[<<103>>] = <<98>>],
                      [DevInit EXCEPT !.fs[<<103>>] = <<98>>, !.uart = FALSE]}
                ELSE {DevInit})
    /\ rx = <<>>
    /\ \E c \in (IF dkind = "arbitrary" THEN {None}
                 ELSE IF ports = <<PORT_OTHER, PORT_MICROBIT>>
                 THEN Contents \cup {None}
                 ELSE {None, <<97>>}) :
           lfs = [p \in LocalPaths |-> IF p = LOCAL_PATH THEN c ELSE None]
    /\ op = NoOp
    /\ pc = "idle"
    /\ commands = <<>>
    /\ idx = 1
    /\ off = 0
    /\ attempts_left = 0
    /\ result = <<>>
    /\ err = None
    /\ ret = <<>>
    /\ ownSerial = FALSE
    /\ closeCalls = 0
    /\ calls = <<>>
    /\ resps = <<>>
    /\ entered = FALSE
    /\ outcome = NoOutcome
    /\ prev = NoOp
    /\ opsRun = 0
    /\ cli = NoCli
    /\ lfs0 = lfs

\* ------------------------------------------------------------------------
\* Transport calls
\* ------------------------------------------------------------------------

\* serial.write(bytes): recorded, and taken by the device, whose output is
\* queued for the host
Write(bytes) ==
    /\ calls' = Append(calls, [call |-> "write", data |-> bytes, at |-> pc,
                                hit |-> FALSE])
    /\ IF dkind = "faithful"
       THEN LET received == DevReceive(dev, bytes)
            IN  /\ dev' = received.d
                /\ rx' = rx \o received.out
       ELSE UNCHANGED <<dev, rx>>

\* what the device may add to the pending bytes before a read returns
Emissions == IF dkind = "arbitrary" THEN ArbOutputs ELSE {<<>>}

\* serial.read_until(term), after the device sent emitted; it returns
\* ReadUntil(rx \o emitted, term).data
Read(term, emitted) ==
    /\ rx' = ReadUntil(rx \o emitted, term).rest
    /\ calls' = Append(calls, [call |-> "read_until", data |-> term, at |-> pc,
                                hit |-> EndsWith(ReadUntil(rx \o emitted, term).data,
                                                 term)])
    /\ UNCHANGED dev

\* ------------------------------------------------------------------------
\* execute and the handshake
\* ------------------------------------------------------------------------

\* a loop that leaves after its first statement
LoopHead_LeavesAfterFirst(i, cmds) ==
    IF i > Min(1, Len(cmds)) THEN "raw_off"
    ELSE IF Utf8Encode(cmds[i]) = <<>> THEN "cmd_eval"
    ELSE "cmd_write"

\* the head of the loop over the statements: the next statement's fragments
\* (none for an empty statement), or raw_off after the last statement
LoopHead(i, cmds) ==
    IF i > Len(cmds) THEN "raw_off"
    ELSE IF Utf8Encode(cmds[i]) = <<>> THEN "cmd_eval"
    ELSE "cmd_write"

\* execute without line 103: straight to the loop
ExecuteAfterSerial_SkipsHandshake(cmds) == LoopHead(1, cmds)

\* execute, line 103: the handshake comes before the loop over the statements
ExecuteAfterSerial(cmds) == "raw_on"

\* line 62 testing the bytes read for truth instead of their ending
PromptSeen_NonEmpty(data) == data # <<>>

\* raw_on, line 62: has the read reached the interactive prompt
PromptSeen(data) == EndsWith(data, REPL_PROMPT)

\* line 113 as result = out
Accumulate_Replaces(res, out) == out

\* execute, line 113: result += out
Accumulate(res, out) == res \o out

\* line 115 returning the accumulated stdout with the stderr
ErrorResult_KeepsStdout(res, e) == <<res, e>>

\* execute, line 115: return b'', err
ErrorResult(res, e) == <<<<>>, e>>

\* an exception leaves the operation
Raise(k, m) ==
    /\ outcome' = Raised(k, m)
    /\ pc' = "done"

\* a caller starts an operation o whose batch is cmds
Begin(o, cmds) ==
    /\ pc \in {"idle", "done"}
    /\ opsRun < MaxOps
    /\ opsRun' = opsRun + 1
    /\ op' = o
    /\ commands' = cmds
    /\ idx' = 1
    /\ off' = 0
    /\ attempts_left' = 0
    /\ result' = <<>>
    /\ err' = None
    /\ ret' = <<>>
    /\ ownSerial' = FALSE
    /\ closeCalls' = 0
    /\ calls' = <<>>
    /\ resps' = <<>>
    /\ entered' = FALSE
    /\ prev' = IF op.name = "put" /\ outcome.kind = "return" THEN op ELSE NoOp
    /\ lfs0' = lfs
    /\ UNCHANGED <<ports, callerSerial, dkind, dev, rx, lfs>>

Call_execute(cmds) ==
    /\ Begin([name |-> "execute", filename |-> None, target |-> None], cmds)
    /\ outcome' = NoOutcome
    /\ pc' = "execute"

Call_ls ==
    /\ Begin([name |-> "ls", filename |-> None, target |-> None], LsCommands)
    /\ outcome' = NoOutcome
    /\ pc' = "execute"

Call_rm(filename) ==
    /\ Begin([name |-> "rm", filename |-> filename, target |-> None],
             RmCommands(filename))
    /\ outcome' = NoOutcome
    /\ pc' = "execute"

\* put without the test of line 182
isfile_Always(fs, path) == TRUE

\* os.path.isfile on the local file system fs, put line 182
isfile(fs, path) == fs[path] # None

\* a put that names the remote file after the whole local path
PutTarget_WholePath(filename, target) == IF target = None THEN filename ELSE target

\* put, lines 186-188: the remote name is the target, or the base name of
\* the local path when no target is given
PutTarget(filename, target) == IF target = None THEN basename(filename) ELSE target

\* put, lines 182-200: the local check, the content, the batch
Call_put(filename, target) ==
    LET tgt == PutTarget(filename, target)
    IN  IF ~isfile(lfs, filename)
        THEN /\ Begin([name |-> "put", filename |-> filename, target |-> target], <<>>)
             /\ Raise("IOError", MSG_NO_FILE)
        ELSE /\ Begin([name |-> "put", filename |-> filename, target |-> target],
                      PutCommands(tgt, lfs[filename]))
             /\ outcome' = NoOutcome
             /\ pc' = "execute"

\* a get that always writes to the path named like the remote file
GetTarget_AlwaysFilename(filename, target) == filename

\* get, lines 217-218: the local path written is the target, or the remote
\* filename when no target is given
GetTarget(filename, target) == IF target = None THEN filename ELSE target

\* get, lines 217-227
Call_get(filename, target) ==
    /\ Begin([name |-> "get", filename |-> filename, target |-> target],
             GetCommands(filename))
    /\ outcome' = NoOutcome
    /\ pc' = "execute"

\* execute, lines 100-103, with get_serial and raw_on's line 59
Execute_GetSerial ==
    /\ pc = "execute"
    /\ IF callerSerial
       THEN /\ pc' = ExecuteAfterSerial(commands)
            /\ attempts_left' = ATTEMPTS
            /\ UNCHANGED <<ownSerial, rx, outcome>>
       ELSE IF find_microbit(ports) = None
       THEN /\ Raise("IOError", MSG_NOT_FOUND)
            /\ UNCHANGED <<ownSerial, rx, attempts_left>>
       ELSE /\ ownSerial' = TRUE
            /\ rx' = <<>>
            /\ pc' = ExecuteAfterSerial(commands)
            /\ attempts_left' = ATTEMPTS
            /\ UNCHANGED outcome
    /\ UNCHANGED <<envVars, dev, lfs, op, commands, idx, off, result, err, ret,
                   closeCalls, calls, resps, entered, opsRun>>

\* raw_on, line 61: send CTRL-C
RawOn_Interrupt ==
    /\ pc = "raw_on"
    /\ Write(<<CTRL_C>>)
    /\ pc' = "raw_on_read"
    /\ UNCHANGED <<envVars, lfs, op, execVars, ownSerial, closeCalls, resps, entered,
                   outcome, opsRun>>

\* raw_on, lines 62-66: read for the prompt; retry, or raise when no attempt
\* is left
RawOn_Read ==
    /\ pc = "raw_on_read"
    /\ \E e \in Emissions :
          /\ Read(REPL_PROMPT, e)
          /\ IF PromptSeen(ReadUntil(rx \o e, REPL_PROMPT).data)
             THEN /\ pc' = "raw_on_enter"
                  /\ UNCHANGED <<attempts_left, outcome>>
             ELSE /\ attempts_left' = attempts_left - 1
                  /\ IF attempts_left - 1 = 0
                     THEN Raise("IOError", MSG_NO_REPL)
                     ELSE pc' = "raw_on" /\ UNCHANGED outcome
    /\ UNCHANGED <<envVars, lfs, op, commands, idx, off, result, err, ret, ownSerial,
                   closeCalls, resps, entered, opsRun>>

\* raw_on, line 67: send CTRL-A
RawOn_Enter ==
    /\ pc = "raw_on_enter"
    /\ Write(<<CTRL_A>>)
    /\ pc' = "raw_on_flush"
    /\ UNCHANGED <<envVars, lfs, op, execVars, ownSerial, closeCalls, resps, entered,
                   outcome, opsRun>>

\* raw_on, line 68: read up to the raw prompt, whatever comes; raw_on returns
RawOn_Flush ==
    /\ pc = "raw_on_flush"
    /\ \E e \in Emissions : Read(RAW_PROMPT, e)
    /\ entered' = TRUE
    /\ pc' = LoopHead(idx, commands)
    /\ UNCHANGED <<envVars, lfs, op, execVars, ownSerial, closeCalls, resps, outcome,
                   opsRun>>

\* a slice that runs to the end of the statement
Fragment_ToTheEnd(command_bytes, i) == SubSeq(command_bytes, i + 1, Len(command_bytes))

\* execute, line 108: command_bytes[i:min(i + 32, len(command_bytes))]
Fragment(command_bytes, i) ==
    SubSeq(command_bytes, i + 1, Min(i + FRAGMENT, Len(command_bytes)))

\* execute, lines 107-109: write one fragment of the statement
Cmd_Write ==
    /\ pc = "cmd_write"
    /\ LET command_bytes == Utf8Encode(commands[idx])
       IN  /\ Write(Fragment(command_bytes, off))
           /\ off' = off + FRAGMENT
           /\ pc' = IF off + FRAGMENT >= Len(command_bytes) THEN "cmd_eval"
                    ELSE "cmd_write"
    /\ UNCHANGED <<envVars, lfs, op, commands, idx, attempts_left, result, err, ret,
                   ownSerial, closeCalls, resps, entered, outcome, opsRun>>

\* execute, line 110: send CTRL-D
Cmd_Eval ==
    /\ pc = "cmd_eval"
    /\ Write(<<CTRL_D>>)
    /\ off' = 0
    /\ pc' = "cmd_read"
    /\ UNCHANGED <<envVars, lfs, op, commands, idx, attempts_left, result, err, ret,
                   ownSerial, closeCalls, resps, entered, outcome, opsRun>>

\* execute, lines 111-115: read the response, split it, accumulate, return
\* early on stderr
Cmd_Read ==
    /\ pc = "cmd_read"
    /\ \E e \in Emissions :
          /\ Read(END_MARKER, e)
          /\ resps' = Append(resps, ReadUntil(rx \o e, END_MARKER).data)
          /\ LET response == ReadUntil(rx \o e, END_MARKER).data
                 parts == Split1(StripStatusAndMarker(response), <<CTRL_D>>)
             IN  IF Len(parts) # 2
                 THEN /\ Raise("ValueError", <<>>)
                      /\ UNCHANGED <<idx, result, err, ret>>
                 ELSE /\ result' = Accumulate(result, parts[1])
                      /\ err' = parts[2]
                      /\ IF parts[2] # <<>>
                         THEN /\ ret' = ErrorResult(result', parts[2])
                              /\ pc' = "exec_returned"
                              /\ UNCHANGED idx
                         ELSE /\ idx' = idx + 1
                              /\ pc' = LoopHead(idx + 1, commands)
                              /\ UNCHANGED ret
                      /\ UNCHANGED outcome
    /\ UNCHANGED <<envVars, lfs, op, commands, off, attempts_left, ownSerial,
                   closeCalls, entered, opsRun>>

\* a raw_off that interrupts the program instead of leaving raw mode
raw_off_Interrupts == Write(<<CTRL_C>>)

\* raw_off(serial): one write of CTRL-B and nothing else
raw_off == Write(<<CTRL_B>>)

\* execute, lines 116-117, with raw_off: send CTRL-B, return result, err
\* (err is unbound when the batch is empty)
RawOff ==
    /\ pc = "raw_off"
    /\ raw_off
    /\ IF err = None
       THEN /\ Raise("UnboundLocalError", <<>>)
            /\ UNCHANGED ret
       ELSE /\ ret' = <<result, err>>
            /\ pc' = "exec_returned"
            /\ UNCHANGED outcome
    /\ UNCHANGED <<envVars, lfs, op, commands, idx, off, attempts_left, result, err,
                   ownSerial, closeCalls, resps, entered, opsRun>>

\* ------------------------------------------------------------------------
\* The operations, once execute has returned
\* ------------------------------------------------------------------------

\* raise IOError(clean_error(err)); clean_error itself raises when err is not
\* UTF-8
RaiseCleanError(e) ==
    IF clean_error_raises(e) THEN Raise("UnicodeDecodeError", <<>>)
    ELSE Raise("IOError", clean_error(e))

\* a direct caller of execute has its return value
Finish_execute ==
    /\ pc = "exec_returned"
    /\ op.name = "execute"
    /\ outcome' = Returned(ret)
    /\ pc' = "done"
    /\ UNCHANGED <<envVars, dev, rx, lfs, op, execVars, ownSerial, closeCalls, calls,
                   resps, entered, opsRun>>

\* ls, lines 148-150
Finish_ls ==
    /\ pc = "exec_returned"
    /\ op.name = "ls"
    /\ IF ret[2] # <<>> THEN RaiseCleanError(ret[2])
       ELSE IF ~Utf8Decodable(ret[1]) THEN Raise("UnicodeDecodeError", <<>>)
       ELSE IF ~literal_eval_ok(Utf8Decode(ret[1])) THEN Raise("SyntaxError", <<>>)
       ELSE /\ outcome' = Returned(literal_eval(Utf8Decode(ret[1])))
            /\ pc' = "done"
    /\ UNCHANGED <<envVars, dev, rx, lfs, op, execVars, ownSerial, closeCalls, calls,
                   resps, entered, opsRun>>

\* rm, lines 167-169, and put, lines 202-204
Finish_rm_put ==
    /\ pc = "exec_returned"
    /\ op.name \in {"rm", "put"}
    /\ IF ret[2] # <<>> THEN RaiseCleanError(ret[2])
       ELSE /\ outcome' = Returned(TRUE)
            /\ pc' = "done"
    /\ UNCHANGED <<envVars, dev, rx, lfs, op, execVars, ownSerial, closeCalls, calls,
                   resps, entered, opsRun>>

\* a get that opens its target for writing before it looks at stderr
LocalAfterGet_OpensFirst(fs, path, out, e) ==
    [fs EXCEPT ![path] = IF e # <<>> THEN <<>> ELSE out]

\* get, lines 229-233: the local files after get; with stderr nothing is
\* opened, without it the target holds out
LocalAfterGet(fs, path, out, e) == IF e # <<>> THEN fs ELSE [fs EXCEPT ![path] = out]

\* get, lines 217-218 and 229-234: out is written to the local target
Finish_get ==
    /\ pc = "exec_returned"
    /\ op.name = "get"
    /\ lfs' = LocalAfterGet(lfs, GetTarget(op.filename, op.target), ret[1], ret[2])
    /\ IF ret[2] # <<>>
       THEN RaiseCleanError(ret[2])
       ELSE /\ outcome' = Returned(TRUE)
            /\ pc' = "done"
    /\ UNCHANGED <<envVars, dev, rx, op, execVars, ownSerial, closeCalls, calls,
                   resps, entered, opsRun>>

\* ------------------------------------------------------------------------
\* The command-line entry point
\* ------------------------------------------------------------------------

\* the argument lists given to main: the command, the path and the target
\* argparse leaves in args (None for a missing one)
MainArgs ==
    {[command |-> c, path |-> p, target |-> None] :
        c \in {"ls", "rm", "get", "help"}, p \in {None, <<102>>}}
    \cup {[command |-> "put", path |-> p, target |-> None] : p \in {None, LOCAL_PATH}}
    \cup {[command |-> "get", path |-> <<102>>, target |-> <<103>>]}

\* ' '.join(names)
RECURSIVE JoinSpace(_)
JoinSpace(names) ==
    IF names = <<>> THEN <<>>
    ELSE IF Len(names) = 1 THEN names[1]
    ELSE names[1] \o <<32>> \o JoinSpace(Tail(names))

\* the status the process ends with once main has returned: main returns
\* None on every path, and the ufs console script exits with what main
\* returns
EXIT_STATUS == 0

\* main ends without calling an operation: it printed text and returned
\* (pc "exited": the process ended and no operation was in progress)
main_Print(argv, text) ==
    /\ cli' = [active |-> TRUE, argv |-> argv, printed |-> <<text>>,
               status |-> <<EXIT_STATUS>>]
    /\ pc' = "exited"
    /\ UNCHANGED <<ports, callerSerial, dkind, prev, dev, rx, lfs, op, execVars,
                   ownSerial, closeCalls, calls, resps, entered, outcome, opsRun, lfs0>>

\* main, lines 245-277: the process starts, parses argv and calls the
\* operation without a Serial, or prints the usage line or the help (put
\* and get run against the MicroPython device, as they do when called as
\* library functions)
main(argv) ==
    LET started == (cli' = [active |-> TRUE, argv |-> argv, printed |-> <<>>,
                            status |-> <<>>])
    IN  /\ pc = "idle"
        /\ ~callerSerial
        /\ (argv.command \in {"put", "get"} /\ argv.path # None) => dkind = "faithful"
        /\ IF argv.command = "ls" THEN Call_ls /\ started
           ELSE IF argv.command = "rm"
           THEN IF argv.path # None THEN Call_rm(argv.path) /\ started
                ELSE main_Print(argv, MSG_RM_USAGE)
           ELSE IF argv.command = "put"
           THEN IF argv.path # None THEN Call_put(argv.path, argv.target) /\ started
                ELSE main_Print(argv, MSG_PUT_USAGE)
           ELSE IF argv.command = "get"
           THEN IF argv.path # None THEN Call_get(argv.path, argv.target) /\ started
                ELSE main_Print(argv, MSG_GET_USAGE)
           ELSE main_Print(argv, MSG_HELP)

\* main, lines 256-258 and 278-280: the operation has returned or raised;
\* ls's names are printed when there are any, an exception is printed, and
\* main returns (the process has ended once cli.status is set)
main_End ==
    /\ pc = "done"
    /\ cli.active
    /\ cli.status = <<>>
    /\ cli' = [cli EXCEPT
                 !.printed = IF outcome.kind # "return" THEN <<outcome.msg>>
                             ELSE IF op.name = "ls" /\ outcome.value # <<>>
                             THEN <<JoinSpace(outcome.value)>>
                             ELSE <<>>,
                 !.status = <<EXIT_STATUS>>]
    /\ UNCHANGED <<ports, callerSerial, dkind, prev, dev, rx, lfs, op, pc, execVars,
                   ownSerial, closeCalls, calls, resps, entered, outcome, opsRun, lfs0>>

\* an operation called as a library function, outside any run of main
Library == ~cli.active /\ UNCHANGED cli

\* ------------------------------------------------------------------------
\* Specification
\* ------------------------------------------------------------------------

Next ==
    \/ \E cmds \in ExecBatches : Call_execute(cmds) /\ Library
    \/ Call_ls /\ Library
    \/ Call_rm(<<102>>) /\ Library
    \/ \E t \in {None, <<103>>} :
           dkind = "faithful" /\ Call_put(LOCAL_PATH, t) /\ Library
    \/ \E t \in {None, <<103>>} :
           dkind = "faithful" /\ Call_get(<<102>>, t) /\ Library
    \/ \E argv \in MainArgs : main(argv)
    \/ main_End
    \/ Execute_GetSerial
    \/ RawOn_Interrupt
    \/ RawOn_Read
    \/ RawOn_Enter
    \/ RawOn_Flush
    \/ Cmd_Write
    \/ Cmd_Eval
    \/ Cmd_Read
    \/ RawOff
    \/ Finish_execute
    \/ Finish_ls
    \/ Finish_rm_put
    \/ Finish_get

Spec == Init /\ [][Next]_vars

TypeOK ==
    /\ pc \in {"idle", "execute", "raw_on", "raw_on_read", "raw_on_enter",
               "raw_on_flush", "cmd_write", "cmd_eval", "cmd_read", "raw_off",
               "exec_returned", "done", "exited"}
    /\ op.name \in {"none", "execute", "ls", "rm", "put", "get"}
    /\ attempts_left \in 0..ATTEMPTS
    /\ idx \in 1..(Len(commands) + 1)
    /\ opsRun \in 0..MaxOps
    /\ outcome.kind \in {"none", "return", "IOError", "ValueError", "SyntaxError",
                         "UnboundLocalError", "UnicodeDecodeError"}

\* ------------------------------------------------------------------------
\* execute against a device that sends anything or nothing
\* ------------------------------------------------------------------------

\* the statements of execute and of the functions it calls: each runs once
\* the one before it has ended, and every read returns, at the latest when
\* its timeout expires
ExecuteStep ==
    \/ Execute_GetSerial
    \/ RawOn_Interrupt
    \/ RawOn_Read
    \/ RawOn_Enter
    \/ RawOn_Flush
    \/ Cmd_Write
    \/ Cmd_Eval
    \/ Cmd_Read
    \/ RawOff

InitExecute == Init /\ dkind = "arbitrary"

\* one call of execute in a behaviour, then its steps
NextExecute ==
    \/ \E cmds \in ExecBatches : pc = "idle" /\ Call_execute(cmds) /\ Library
    \/ ExecuteStep
    \/ Finish_execute

SpecExecute == InitExecute /\ [][NextExecute]_vars /\ WF_vars(ExecuteStep)

\* ------------------------------------------------------------------------
\* clean_error called on its own
\* ------------------------------------------------------------------------

\* bytes of the inputs to clean_error: CR, LF, 'a', 'b' and 0xFF, which is no
\* UTF-8
ErrAlphabet == {13, 10, 97, 98, 255}

\* the inputs to clean_error: every byte string over ErrAlphabet up to
\* MaxErrLen, a traceback as the device prints it, and a two-byte character
\* ('e' with acute accent) on a line of its own
ErrInputs ==
    SeqsUpTo(ErrAlphabet, MaxErrLen)
        \cup {DEV_TRACEBACK \o DEV_ENOENT, <<195, 169, 13, 10>>}

\* a caller calls clean_error(e): lines 125-131; the decode of line 126 is
\* outside the try block
Call_clean_error(e) ==
    /\ pc = "idle"
    /\ op' = [name |-> "clean_error", filename |-> None, target |-> None]
    /\ err' = e
    /\ IF clean_error_raises(e)
       THEN Raise("UnicodeDecodeError", <<>>)
       ELSE /\ outcome' = Returned(clean_error(e))
            /\ pc' = "done"
    /\ UNCHANGED <<envVars, dev, rx, lfs, commands, idx, off, attempts_left, result,
                   ret, ownSerial, closeCalls, calls, resps, entered, opsRun>>

InitCleanError ==
    /\ dkind = "faithful"
    /\ callerSerial = TRUE
    /\ ports = <<PORT_MICROBIT>>
    /\ dev = DevInit
    /\ rx = <<>>
    /\ lfs = [p \in LocalPaths |-> None]
    /\ op = NoOp
    /\ pc = "idle"
    /\ commands = <<>>
    /\ idx = 1
    /\ off = 0
    /\ attempts_left = 0
    /\ result = <<>>
    /\ err = None
    /\ ret = <<>>
    /\ ownSerial = FALSE
    /\ closeCalls = 0
    /\ calls = <<>>
    /\ resps = <<>>
    /\ entered = FALSE
    /\ outcome = NoOutcome
    /\ prev = NoOp
    /\ opsRun = 0
    /\ cli = NoCli
    /\ lfs0 = lfs

NextCleanError == \E e \in ErrInputs : Call_clean_error(e)

SpecCleanError == InitCleanError /\ [][NextCleanError]_vars

\* ------------------------------------------------------------------------
\* Properties
\* ------------------------------------------------------------------------

\* the statements of the batch whose CTRL-D has been written
EvalWrites == {i \in 1..Len(calls) : calls[i].at = "cmd_eval"}

\* the writes of one single byte b
WritesOf(b) == {i \in 1..Len(calls) : calls[i].call = "write" /\ calls[i].data = <<b>>}

\* response[2:-2]
Body(response) == SubSeq(response, 3, Len(response) - 2)

\* k is the position of the first separator of body
FirstSeparator(body, k) ==
    /\ k \in 1..Len(body)
    /\ body[k] = CTRL_D
    /\ \A j \in 1..(k - 1) : body[j] # CTRL_D

\* C1: as soon as the response to a statement has bytes after its first
\* separator, execute has returned (empty stdout, exactly those bytes): that
\* response is the last one read, the read is the last transport call of the
\* batch, only the statements up to this one were written, and what was
\* accumulated from earlier statements is not in the returned value.
C1_StderrStopsBatch ==
    \A i \in 1..Len(resps) :
        \A k \in 1..Len(Body(resps[i])) :
            (FirstSeparator(Body(resps[i]), k) /\ k < Len(Body(resps[i])))
            => /\ i = Len(resps)
               /\ pc \in {"exec_returned", "done"}
               /\ ret = << <<>>, SubSeq(Body(resps[i]), k + 1, Len(Body(resps[i]))) >>
               /\ calls[Len(calls)].call = "read_until"
               /\ calls[Len(calls)].at = "cmd_read"
               /\ Cardinality(EvalWrites) = i
               /\ WritesOf(CTRL_B) = {}

\* the second statement of three answered with stderr after both answered
\* with stdout
C1_Witness ==
    /\ pc = "done"
    /\ op.name = "execute"
    /\ Len(commands) = 3
    /\ Len(resps) = 2
    /\ result = <<97, 97>>
    /\ ret = << <<>>, <<101>> >>
    /\ outcome = Returned(ret)

\* the response parses and nothing follows its first separator
CleanResponse(response) ==
    \E k \in 1..Len(Body(response)) :
        FirstSeparator(Body(response), k) /\ k = Len(Body(response))

\* the bytes before the first separator of a response
StdoutOf(response) ==
    SubSeq(Body(response), 1,
           (CHOOSE k \in 1..Len(Body(response)) : FirstSeparator(Body(response), k)) - 1)

\* the calls made by raw_off
ExitWrites == {i \in 1..Len(calls) : calls[i].at = "raw_off"}

\* C2: when every statement of a batch (of at least one statement) was
\* answered with empty stderr, execute is at raw_off or past it; once it has
\* returned, the value is (the stdout of every statement concatenated in
\* statement order, empty), raw_off ran exactly once, its CTRL-B is the last
\* transport call and the call before it is the read of the last response.
\* The batch without statements never reaches the return (line 117 reads an
\* unbound err) and is outside this statement.
C2_AllCleanConcatenates ==
    (/\ Len(commands) >= 1
     /\ Len(resps) = Len(commands)
     /\ \A i \in 1..Len(resps) : CleanResponse(resps[i]))
    => /\ pc \in {"raw_off", "exec_returned", "done"}
       /\ pc = "raw_off" => ExitWrites = {}
       /\ pc # "raw_off" =>
            /\ ret = << Flatten([i \in 1..Len(resps) |-> StdoutOf(resps[i])]), <<>> >>
            /\ ExitWrites = {Len(calls)}
            /\ calls[Len(calls)].call = "write"
            /\ calls[Len(calls)].data = <<CTRL_B>>
            /\ calls[Len(calls) - 1].call = "read_until"
            /\ calls[Len(calls) - 1].at = "cmd_read"
            /\ Cardinality(EvalWrites) = Len(commands)
       /\ (pc = "done" /\ op.name = "execute") => outcome = Returned(ret)

\* two statements answered with different stdout and no stderr
C2_Witness ==
    /\ pc = "done"
    /\ op.name = "execute"
    /\ Len(commands) = 2
    /\ \A i \in 1..Len(resps) : CleanResponse(resps[i])
    /\ outcome = Returned(<< <<97, 98>>, <<>> >>)

\* the calls that carry a statement: its fragments and its CTRL-D
StatementCalls == {i \in 1..Len(calls) : calls[i].at \in {"cmd_write", "cmd_eval"}}

\* the calls made by raw_on
HandshakeCalls ==
    {i \in 1..Len(calls) :
        calls[i].at \in {"raw_on", "raw_on_read", "raw_on_enter", "raw_on_flush"}}

\* C3: the handshake happens once per batch and before the statements: the
\* calls of raw_on are the first calls of the operation, CTRL-A is written at
\* most once and exactly once when raw_on has returned, every call that
\* carries a statement comes after raw_on's last read, and an operation whose
\* handshake failed has written no statement byte.
C3_HandshakeOnceFirst ==
    /\ \A i \in HandshakeCalls : \A j \in 1..(i - 1) : j \in HandshakeCalls
    /\ Cardinality({i \in 1..Len(calls) : calls[i].at = "raw_on_enter"}) <= 1
    /\ Cardinality({i \in 1..Len(calls) : calls[i].at = "raw_on_flush"}) <= 1
    /\ Cardinality(WritesOf(CTRL_A)) = (IF entered \/ pc = "raw_on_flush" THEN 1 ELSE 0)
    /\ entered <=> (\E i \in 1..Len(calls) : calls[i].at = "raw_on_flush")
    /\ pc \in {"cmd_write", "cmd_eval", "cmd_read", "raw_off", "exec_returned"} => entered
    /\ \A i \in StatementCalls :
          /\ entered
          /\ \E j \in 1..(i - 1) : calls[j].at = "raw_on_flush"
    /\ (pc = "done" /\ ~entered) => StatementCalls = {}
    /\ (outcome.kind = "IOError" /\ outcome.msg = MSG_NO_REPL)
       => (~entered /\ StatementCalls = {})

\* a batch of three statements written after one handshake
C3_Witness ==
    /\ pc = "done"
    /\ Len(commands) = 3
    /\ Cardinality(EvalWrites) = 3
    /\ Cardinality(WritesOf(CTRL_A)) = 1
    /\ outcome.kind = "return"

\* the reads of raw_on for the interactive prompt
PromptReads == {i \in 1..Len(calls) : calls[i].at = "raw_on_read"}

C5_NoResultWithoutMarker ==
    (/\ pc = "done"
     /\ op.name = "execute"
     /\ \E i \in 1..Len(resps) : ~EndsWith(resps[i], <<4, 62>>))
    => outcome.kind # "return"

\* C6: raw_on returns normally only when its read after the 0x01 ended with
\* the raw-mode prompt.
C6_RawPromptConfirmed ==
    entered => \E i \in 1..Len(calls) : calls[i].at = "raw_on_flush" /\ calls[i].hit

\* C7: whenever ls, rm, put or get has finished after raw mode was entered,
\* by returning or by raising the IOError made from a statement's stderr,
\* the last byte written for the batch is the raw-mode exit byte 0x02 and the
\* device is back in interactive mode.
C7_RawModeClosed ==
    (/\ pc = "done"
     /\ op.name \in {"ls", "rm", "put", "get"}
     /\ entered
     /\ dkind = "faithful"
     /\ outcome.kind \in {"return", "IOError"})
    => /\ \E i \in 1..Len(calls) :
             /\ calls[i].call = "write"
             /\ calls[i].data = <<CTRL_B>>
             /\ \A j \in (i + 1)..Len(calls) : calls[j].call # "write"
       /\ dev.mode = "interactive"

\* C8: when execute opened the connection itself, the connection has been
\* closed exactly once when execute has returned, normally or early on
\* stderr, and when the handshake has failed.
C8_OwnSerialClosed ==
    (/\ pc = "done"
     /\ op.name = "execute"
     /\ ownSerial
     /\ \/ outcome.kind = "return"
        \/ outcome.kind = "IOError" /\ outcome.msg = MSG_NO_REPL)
    => closeCalls = 1

\* the descriptor of port p holds 'VID:PID=0D28:0204' in any letter case
DescriptorMatches(p) ==
    LET id == <<86, 73, 68, 58, 80, 73, 68, 61, 48, 68, 50, 56, 58, 48, 50, 48, 52>>
        up(c) == IF c \in 97..122 THEN c - 32 ELSE c
    IN  \E k \in 1..Len(p[3]) :
            /\ k + Len(id) - 1 <= Len(p[3])
            /\ \A j \in 1..Len(id) : up(p[3][k + j - 1]) = id[j]

\* C9: when the caller supplies no serial connection and no listed port
\* matches the identifier, no operation ever makes a transport call or opens
\* a connection, and every operation that has ended has raised IOError
\* 'Could not find micro:bit.', but for put of a missing local file, which
\* has raised its own 'No such file.' before.
C9_NoDeviceNoTraffic ==
    (~callerSerial /\ \A i \in 1..Len(ports) : ~DescriptorMatches(ports[i]))
    => /\ calls = <<>>
       /\ ~ownSerial
       /\ ~entered
       /\ pc \in {"idle", "execute", "done", "exited"}
       /\ pc = "done" =>
            /\ outcome.kind = "IOError"
            /\ IF op.name = "put" /\ lfs[op.filename] = None
               THEN outcome.msg = MSG_NO_FILE
               ELSE outcome.msg = <<67, 111, 117, 108, 100, 32, 110, 111, 116, 32, 102,
                                    105, 110, 100, 32, 109, 105, 99, 114, 111, 58, 98,
                                    105, 116, 46>>

\* put of an existing local file failed for want of a device, with a port of
\* another kind listed
C9_Witness ==
    /\ ~callerSerial
    /\ ports = <<PORT_OTHER>>
    /\ pc = "done"
    /\ op.name = "put"
    /\ lfs[op.filename] # None
    /\ outcome.kind = "IOError"
    /\ outcome.msg = MSG_NOT_FOUND
    /\ calls = <<>>

\* C10: against a faithful device, with each operation on a connection of its
\* own, a put of the local file that returned followed by a get of the
\* remote name it wrote ends with the get returning and the local target
\* holding the bytes of the original file.
C10_RoundTrip ==
    (/\ dkind = "faithful"
     /\ ~callerSerial
     /\ pc = "done"
     /\ op.name = "get"
     /\ prev.name = "put"
     /\ op.filename = (IF prev.target = None THEN basename(prev.filename)
                       ELSE prev.target))
    => /\ outcome.kind = "return"
       /\ lfs[IF op.target = None THEN op.filename ELSE op.target]
              = lfs[prev.filename]

\* the bytes a data statement f(b'...') of put carries, read back from its
\* literal
Payload(stmt) == DevBytesLiteral(SubSeq(stmt, 3, Len(stmt) - 1)).value

\* C11: the batch put calls execute with for a local content of n bytes is the
\* open statement (write-binary), the bind statement, ceil(n/64) data
\* statements and the close statement, in this order; each data statement is
\* f(<bytes literal>), carries 64 bytes but the last, which carries the
\* remainder, and the payloads concatenated in order are the content.
C11_PutBatchShape ==
    (op.name = "put" /\ pc = "execute")
    => LET content == lfs[op.filename]
           n == Len(content)
           chunks == (n + 63) \div 64
       IN  /\ Len(commands) = chunks + 3
           /\ StartsWith(commands[1], <<102, 100, 32, 61, 32, 111, 112, 101, 110, 40, 39>>)
           /\ EndsWith(commands[1], <<39, 44, 32, 39, 119, 98, 39, 41>>)
           /\ commands[2] = <<102, 32, 61, 32, 102, 100, 46, 119, 114, 105, 116, 101>>
           /\ commands[Len(commands)] = <<102, 100, 46, 99, 108, 111, 115, 101, 40, 41>>
           /\ \A k \in 1..chunks :
                 /\ StartsWith(commands[k + 2], <<102, 40, 98>>)
                 /\ commands[k + 2][Len(commands[k + 2])] = 41
                 /\ DevBytesLiteral(SubSeq(commands[k + 2], 3,
                                           Len(commands[k + 2]) - 1)).ok
                 /\ Len(Payload(commands[k + 2]))
                        = (IF k < chunks THEN 64 ELSE n - 64 * (chunks - 1))
           /\ Flatten([k \in 1..chunks |-> Payload(commands[k + 2])]) = content

\* put of the 130-byte file calls execute with six statements: three data
\* statements of 64, 64 and 2 bytes
C11_Witness ==
    /\ op.name = "put"
    /\ pc = "execute"
    /\ Len(lfs[op.filename]) = 130
    /\ Len(commands) = 6
    /\ Len(Payload(commands[3])) = 64
    /\ Len(Payload(commands[4])) = 64
    /\ Len(Payload(commands[5])) = 2

\* C12: a put whose local path is not an existing file has ended at once with
\* IOError 'No such file.': it is never at the call of execute or beyond, no
\* connection was opened and no transport call was made.
C12_PutMissingLocalFile ==
    (op.name = "put" /\ lfs[op.filename] = None)
    => /\ pc = "done"
       /\ outcome.kind = "IOError"
       /\ outcome.msg = <<78, 111, 32, 115, 117, 99, 104, 32, 102, 105, 108, 101, 46>>
       /\ calls = <<>>
       /\ resps = <<>>
       /\ commands = <<>>
       /\ ~ownSerial
       /\ ~entered

\* put of a missing local file has failed while a device was there to talk to
C12_Witness ==
    /\ op.name = "put"
    /\ lfs[op.filename] = None
    /\ pc = "done"
    /\ outcome.kind = "IOError"
    /\ dkind = "faithful"
    /\ find_microbit(ports) # None
    /\ calls = <<>>

\* C13: when get has succeeded on a stdout that is a bytes literal, the
\* local target holds the bytes the literal denotes: stdout b'hello' in its
\* 8 characters gives the 5 bytes hello.
C13_GetDecodesLiteral ==
    (/\ op.name = "get"
     /\ pc = "done"
     /\ outcome.kind = "return"
     /\ DevBytesLiteral(ret[1]).ok)
    => lfs[IF op.target = None THEN op.filename ELSE op.target]
           = DevBytesLiteral(ret[1]).value

\* C14: when execute has returned to ls, rm, put or get with a non-empty
\* stderr, the operation has raised IOError with the message clean_error
\* gives for that stderr (the decoded text itself when it has no second
\* line), and when it has returned an empty stderr to rm, put or get, the
\* operation has returned True.
C14_StderrBecomesIOError ==
    (/\ op.name \in {"ls", "rm", "put", "get"}
     /\ pc = "done"
     /\ ret # <<>>)
    => IF ret[2] # <<>>
       THEN /\ outcome.kind = "IOError"
            /\ Utf8Decodable(ret[2]) => outcome.msg = clean_error(ret[2])
       ELSE op.name \in {"rm", "put", "get"}
            => (outcome.kind = "return" /\ outcome.value = TRUE)

\* text has no CR LF in it
NoCRLF(text) == \A i \in 1..(Len(text) - 1) : ~(text[i] = 13 /\ text[i + 1] = 10)

\* line is the piece before the last CR LF of text, from the CR LF before it
\* (or from the start)
LineBeforeLastCRLF(text, line) ==
    \E i \in 0..Len(text), j \in 1..Len(text) :
        /\ i < j
        /\ j < Len(text)
        /\ text[j] = 13
        /\ text[j + 1] = 10
        /\ NoCRLF(SubSeq(text, j + 2, Len(text)))
        /\ i = 0 \/ (i >= 2 /\ text[i - 1] = 13 /\ text[i] = 10)
        /\ line = SubSeq(text, i + 1, j - 1)
        /\ NoCRLF(line)

\* C15: clean_error called on bytes that decode as UTF-8 returns 'There was an
\* error.' for the empty input, the decoded text unchanged when it has no
\* CR LF, and otherwise the line before the last CR LF: the last line of a
\* traceback that ends with CR LF.
C15_CleanErrorLine ==
    (op.name = "clean_error" /\ pc = "done" /\ Utf8Decodable(err))
    => /\ outcome.kind = "return"
       /\ IF err = <<>>
          THEN outcome.value = <<84, 104, 101, 114, 101, 32, 119, 97, 115, 32, 97, 110,
                                 32, 101, 114, 114, 111, 114, 46>>
          ELSE IF NoCRLF(Utf8Decode(err))
          THEN outcome.value = Utf8Decode(err)
          ELSE LineBeforeLastCRLF(Utf8Decode(err), outcome.value)

\* clean_error has returned the last line of the device's traceback
C15_Witness ==
    /\ op.name = "clean_error"
    /\ pc = "done"
    /\ err = DEV_TRACEBACK \o DEV_ENOENT
    /\ outcome.kind = "return"
    /\ outcome.value = <<79, 83, 69, 114, 114, 111, 114, 58, 32, 91, 69, 114, 114, 110,
                         111, 32, 50, 93, 32, 69, 78, 79, 69, 78, 84>>

\* C16: clean_error returns a text for every input and raises nothing.
C16_CleanErrorNeverFails ==
    (op.name = "clean_error" /\ pc = "done") => outcome.kind = "return"

\* the names of the files the device holds, in the order it lists them
DeviceFiles ==
    LET present == {i \in 1..Len(RemoteOrder) : dev.fs[RemoteOrder[i]] # None}
        nth(k) == CHOOSE i \in present : Cardinality({j \in present : j <= i}) = k
    IN  [k \in 1..Cardinality(present) |-> RemoteOrder[nth(k)]]

\* C17: the batch of ls is 'import os' and 'print(os.listdir())'; an ls that
\* returned has no stderr, and against the MicroPython device on a
\* connection of its own an ls that entered raw mode has returned the names
\* the device holds, in the device's order (the empty sequence for no file).
C17_LsReturnsNames ==
    (op.name = "ls" /\ pc = "done")
    => /\ commands = << <<105, 109, 112, 111, 114, 116, 32, 111, 115>>,
                        <<112, 114, 105, 110, 116, 40, 111, 115, 46, 108, 105, 115, 116,
                          100, 105, 114, 40, 41, 41>> >>
       /\ outcome.kind = "return" => (ret # <<>> /\ ret[2] = <<>>)
       /\ (dkind = "faithful" /\ ~callerSerial /\ entered)
          => /\ outcome.kind = "return"
             /\ outcome.value = DeviceFiles
             /\ ret[1] = <<91>> \o (IF Len(DeviceFiles) = 0 THEN <<>>
                                    ELSE IF Len(DeviceFiles) = 1
                                    THEN <<39>> \o DeviceFiles[1] \o <<39>>
                                    ELSE <<39>> \o DeviceFiles[1] \o <<39, 44, 32, 39>>
                                             \o DeviceFiles[2] \o <<39>>)
                        \o <<93, 13, 10>>

\* ls has returned the two names 'f' and 'g' in this order
C17_Witness ==
    /\ op.name = "ls"
    /\ pc = "done"
    /\ outcome.kind = "return"
    /\ outcome.value = << <<102>>, <<103>> >>

\* C18: the step that runs raw_off adds exactly one transport call, the write
\* of the single byte 0x02; it reads nothing (the bytes pending on the
\* transport stay pending, whatever they are) and it raises no IOError: it
\* ends with execute returning, or with the UnboundLocalError of the return
\* statement of an empty batch.
C18_RawOffOneWrite ==
    [][pc = "raw_off"
       => /\ Len(calls') = Len(calls) + 1
          /\ SubSeq(calls', 1, Len(calls)) = calls
          /\ calls'[Len(calls')].call = "write"
          /\ calls'[Len(calls')].data = <<2>>
          /\ calls'[Len(calls')].at = "raw_off"
          /\ Len(rx') >= Len(rx)
          /\ SubSeq(rx', 1, Len(rx)) = rx
          /\ \/ pc' = "exec_returned" /\ outcome' = outcome
             \/ /\ pc' = "done"
                /\ commands = <<>>
                /\ outcome'.kind = "UnboundLocalError"]_vars

\* raw_off has run right after a read that ended without its delimiter, and
\* execute has returned
C18_Witness ==
    /\ pc = "exec_returned"
    /\ calls # <<>>
    /\ calls[Len(calls)].at = "raw_off"
    /\ calls[Len(calls)].data = <<2>>
    /\ Len(calls) >= 2
    /\ calls[Len(calls) - 1].call = "read_until"
    /\ ~calls[Len(calls) - 1].hit

\* C19: against a MicroPython device without the hardware UART module that
\* holds the file asked for, a get on a connection of its own that entered
\* raw mode gets no stderr for the first statement of its batch and returns.
C19_GetFallsBack ==
    (/\ op.name = "get"
     /\ pc = "done"
     /\ dkind = "faithful"
     /\ ~callerSerial
     /\ entered
     /\ ~dev.uart
     /\ dev.fs[op.filename] # None)
    => /\ resps # <<>>
       /\ CleanResponse(resps[1])
       /\ outcome.kind = "return"

\* the part of a path after its last '/'
LastComponent(path) ==
    LET starts == {i \in 1..(Len(path) + 1) :
                      /\ \A j \in i..Len(path) : path[j] # 47
                      /\ i > 1 => path[i - 1] = 47}
    IN  SubSeq(path, CHOOSE i \in starts : TRUE, Len(path))

\* the remote name the claim gives a put
RemoteNameOf(o) == IF o.target = None THEN LastComponent(o.filename) ELSE o.target

\* C20: the first statement of put's batch opens, for writing, the file named
\* by the given target, or by the base name of the local path when no target
\* is given; a put that returned from the MicroPython device has created the
\* file of that name there.
C20_PutRemoteName ==
    /\ (op.name = "put" /\ pc = "execute")
       => commands[1] = <<102, 100, 32, 61, 32, 111, 112, 101, 110, 40, 39>>
                            \o RemoteNameOf(op)
                            \o <<39, 44, 32, 39, 119, 98, 39, 41>>
    /\ (op.name = "put" /\ pc = "done" /\ outcome.kind = "return" /\ dkind = "faithful")
       => dev.fs[RemoteNameOf(op)] # None

\* a put of 'd/f' without target created 'f', and after it a put of 'd/f'
\* with the target 'g' created 'g'
C20_Witness ==
    /\ prev.name = "put"
    /\ prev.filename = <<100, 47, 102>>
    /\ prev.target = None
    /\ op.name = "put"
    /\ op.target = <<103>>
    /\ pc = "done"
    /\ outcome.kind = "return"
    /\ dev.fs[<<102>>] # None
    /\ dev.fs[<<103>>] # None

\* the local path the claim gives a get
LocalPathOf(o) == IF o.target = None THEN o.filename ELSE o.target

\* C21: the step in which a get returns leaves, at the given target (the
\* remote filename when no target is given), a file holding the stdout of
\* the batch, and changes no other local path; no other step of a get
\* changes a local path.
C21_GetWritesOneTarget ==
    [][op.name = "get"
       => /\ (pc = "exec_returned" /\ outcome'.kind = "return")
             => /\ lfs'[LocalPathOf(op)] # None
                /\ lfs'[LocalPathOf(op)] = ret[1]
                /\ \A p \in LocalPaths \ {LocalPathOf(op)} : lfs'[p] = lfs[p]
          /\ ~(pc = "exec_returned" /\ outcome'.kind = "return")
             => (op'.name = "get" => lfs' = lfs)]_vars

\* a get of 'f' with the target 'g' has returned: 'g' exists locally and no
\* local 'f' does
C21_Witness ==
    /\ op.name = "get"
    /\ op.target = <<103>>
    /\ pc = "done"
    /\ outcome.kind = "return"
    /\ lfs[<<103>>] # None
    /\ lfs[<<102>>] = None

\* C22: when the operation main called has raised and the process has ended,
\* the exception was printed, nothing else was, and the exit status is 1.
C22_MainErrorExit ==
    (cli.active /\ cli.status # <<>> /\ outcome.kind \notin {"none", "return"})
    => /\ cli.printed = <<outcome.msg>>
       /\ cli.status = <<1>>

\* C23: when main was given rm, put or get without a path and the process has
\* ended, one usage line was printed, no operation was started and no
\* transport call made, and the exit status is not 0.
C23_MainMissingPath ==
    (/\ cli.active
     /\ cli.status # <<>>
     /\ cli.argv.command \in {"rm", "put", "get"}
     /\ cli.argv.path = None)
    => /\ Len(cli.printed) = 1
       /\ op = NoOp
       /\ opsRun = 0
       /\ calls = <<>>
       /\ cli.status # <<0>>

\* C24: an operation that ended in the enter handshake (its last transport
\* call is a read for the interactive prompt, and raw mode was not entered)
\* has raised IOError with the message 'Could not enter raw REPL.'.
C24_HandshakeMessage ==
    (/\ pc = "done"
     /\ ~entered
     /\ calls # <<>>
     /\ calls[Len(calls)].at = "raw_on_read")
    => /\ outcome.kind = "IOError"
       /\ outcome.msg = <<67, 111, 117, 108, 100, 32, 110, 111, 116, 32, 101, 110, 116,
                          101, 114, 32, 114, 97, 119, 32, 82, 69, 80, 76, 46>>

\* the k-th smallest member of a set of indices
Nth(S, k) == CHOOSE i \in S : Cardinality({j \in S : j <= i}) = k

\* the reads for the responses of the statements
ResponseReads == {i \in 1..Len(calls) : calls[i].at = "cmd_read"}

\* the calls between the end of statement k - 1 and the evaluate byte of
\* statement k
FragmentCalls(k) ==
    LET first == IF k = 1 THEN Cardinality(HandshakeCalls) + 1
                 ELSE Nth(ResponseReads, k - 1) + 1
    IN  first..(Nth(EvalWrites, k) - 1)

\* the bytes written by the calls first..last, in call order
RECURSIVE Written(_, _)
Written(first, last) ==
    IF first > last THEN <<>> ELSE calls[first].data \o Written(first + 1, last)

\* C25: after the handshake the transport calls of a batch come statement by
\* statement, in the order of the batch: the fragment writes of statement k,
\* carrying together exactly its bytes, then one write of 0x04, then at once
\* the read for its response, and only then the first call of statement
\* k + 1; a statement is evaluated only after the response of the one before
\* it was read; at most the last statement lacks its read (while execute is
\* at it); and when execute is past the loop with no response carrying
\* stderr, every statement of the batch was written, once.
C25_OneStatementInFlight ==
    LET evals == Cardinality(EvalWrites)
        reads == Cardinality(ResponseReads)
    IN  /\ reads = Len(resps)
        /\ evals \in {reads, reads + 1}
        /\ evals = reads + 1 <=> pc = "cmd_read"
        /\ evals <= Len(commands)
        /\ \A k \in 1..evals :
              /\ \A i \in FragmentCalls(k) :
                    calls[i].at = "cmd_write" /\ calls[i].call = "write"
              /\ Written(Nth(EvalWrites, k) - Cardinality(FragmentCalls(k)),
                         Nth(EvalWrites, k) - 1) = Utf8Encode(commands[k])
              /\ calls[Nth(EvalWrites, k)].data = <<4>>
              /\ calls[Nth(EvalWrites, k)].call = "write"
              /\ k <= reads => Nth(ResponseReads, k) = Nth(EvalWrites, k) + 1
        /\ \A i \in 1..Len(calls) :
              calls[i].at = "cmd_write"
              => \/ \E k \in 1..evals : i \in FragmentCalls(k)
                 \/ /\ pc \in {"cmd_write", "cmd_eval"}
                    /\ i > (IF reads = 0 THEN Cardinality(HandshakeCalls)
                            ELSE Nth(ResponseReads, reads))
        /\ (/\ entered
            /\ pc \in {"raw_off", "exec_returned", "done"}
            /\ \A i \in 1..Len(resps) : CleanResponse(resps[i]))
           => evals = Len(commands)

\* a batch of three statements has run to its end without stderr: three
\* evaluate bytes, each followed at once by its read
C25_Witness ==
    /\ pc = "exec_returned"
    /\ Len(commands) = 3
    /\ Cardinality(EvalWrites) = 3
    /\ Cardinality(ResponseReads) = 3
    /\ \A i \in 1..Len(resps) : CleanResponse(resps[i])

\* the smallest number of fragments of at most 32 bytes that carry n bytes
CeilDiv32(n) == CHOOSE q \in 0..n : 32 * q >= n /\ (q = 0 \/ 32 * (q - 1) < n)

\* C26: for every statement whose 0x04 was written, the writes since the end
\* of the statement before it are exactly ceil(L / 32) fragment writes, L the
\* length of the statement's UTF-8 encoding (none when L = 0); every fragment
\* but the last has 32 bytes, the last between 1 and 32; the fragments joined
\* in write order are the encoding; and the write after them is the single
\* byte 0x04, followed by no other write before the read.
C26_FragmentsOf32 ==
    \A k \in 1..Cardinality(EvalWrites) :
        LET bytes == Utf8Encode(commands[k])
            frags == FragmentCalls(k)
            last == Nth(EvalWrites, k) - 1
        IN  /\ Cardinality(frags) = CeilDiv32(Len(bytes))
            /\ \A i \in frags :
                  /\ calls[i].call = "write"
                  /\ calls[i].at = "cmd_write"
                  /\ Len(calls[i].data) \in 1..32
                  /\ i # last => Len(calls[i].data) = 32
            /\ Written(last - Cardinality(frags) + 1, last) = bytes
            /\ calls[last + 1].data = <<4>>
            /\ (last + 2 <= Len(calls)) => calls[last + 2].call = "read_until"

\* a statement of more than 64 bytes that are not a multiple of 32 was
\* evaluated: three fragments or more, the last one short
C26_Witness ==
    \E k \in 1..Cardinality(EvalWrites) :
        /\ Len(Utf8Encode(commands[k])) > 64
        /\ Len(Utf8Encode(commands[k])) % 32 # 0
        /\ Cardinality(FragmentCalls(k)) >= 3
        /\ Len(calls[Nth(EvalWrites, k) - 1].data) < 32

\* C27: when get, against the MicroPython device on a connection of its own,
\* has read the response to its fifth statement (the loop that sends the
\* file) and the response ends with the end marker, the stdout execute took
\* from it is the content of the device's file, which is what the device
\* sent as stdout, and the stderr it took is empty, as the device sent none.
C27_PayloadsRecovered ==
    (/\ op.name = "get"
     /\ dkind = "faithful"
     /\ ~callerSerial
     /\ entered
     /\ Len(resps) = 5
     /\ \A i \in 1..4 : CleanResponse(resps[i])
     /\ EndsWith(resps[5], <<4, 62>>))
    => /\ result = dev.fs[op.filename]
       /\ err = <<>>

\* the most transport calls execute makes for a batch: 3 interrupts with
\* their reads, CTRL-A and its read, for each statement its fragments, its
\* 0x04 and its read, and CTRL-B
CallBound(cmds) ==
    LET stmt(k) == CeilDiv32(Len(Utf8Encode(cmds[k]))) + 2
        sums[k \in 0..Len(cmds)] == IF k = 0 THEN 0 ELSE sums[k - 1] + stmt(k)
    IN  8 + sums[Len(cmds)] + 1

\* the counts of transport calls stay within their bounds
CallsBounded ==
    /\ Cardinality({i \in HandshakeCalls : calls[i].call = "write"
                                           /\ calls[i].data = <<3>>}) <= 3
    /\ Cardinality({i \in HandshakeCalls : calls[i].call = "read_until"}) <= 4
    /\ Cardinality(ResponseReads) \in
          {Cardinality(EvalWrites), Cardinality(EvalWrites) - 1}
    /\ pc \in {"raw_off", "exec_returned", "done"}
       => Cardinality(ResponseReads) = Cardinality(EvalWrites)
    /\ \A i \in 1..Len(calls) :
          calls[i].call = "read_until" => i \in HandshakeCalls \cup ResponseReads
    /\ Len(calls) <= CallBound(commands)

\* C28: whatever the device sends or fails to send, every call of execute
\* ends, by returning or by raising, provided each statement of execute runs
\* and each read returns; meanwhile the handshake writes at most 3 interrupt
\* bytes and reads at most 4 times, every read outside the handshake is the
\* one read of a statement whose 0x04 was written, and the transport calls
\* number at most 9 plus, for each statement, its fragments and 2.
C28_ExecuteTerminates ==
    /\ []CallsBounded
    /\ (pc = "execute") ~> (pc \in {"exec_returned", "done"})

\* execute has returned after the longest run the batch of three statements
\* allows: the handshake succeeded at the third attempt only
C28_Witness ==
    /\ dkind = "arbitrary"
    /\ op.name = "execute"
    /\ pc = "exec_returned"
    /\ Len(commands) = 3
    /\ Len(calls) = CallBound(commands)

\* C29: against the MicroPython device, every operation that has left the
\* enter handshake, whatever ran on the session before it, has entered raw
\* mode.
C29_HandshakeAlwaysSucceeds ==
    (/\ dkind = "faithful"
     /\ calls # <<>>
     /\ pc \notin {"raw_on", "raw_on_read", "raw_on_enter", "raw_on_flush"})
    => entered

\* C30: while a get has not returned, and when it has ended by raising
\* (IOError for stderr, or any exception out of execute), every local path,
\* the target included, is as it was when the get began: holding the same
\* bytes, or still missing.
C30_FailedGetLeavesTarget ==
    (op.name = "get" /\ ~(pc = "done" /\ outcome.kind = "return"))
    => \A p \in LocalPaths : lfs[p] = lfs0[p]

\* a get has raised IOError for the stderr of its batch, and its target does
\* not exist
C30_Witness ==
    /\ op.name = "get"
    /\ pc = "done"
    /\ outcome.kind = "IOError"
    /\ entered
    /\ ret # <<>>
    /\ ret[2] # <<>>
    /\ lfs[LocalPathOf(op)] = None

\* C31: an execute of the batch without statements that has entered raw mode
\* and ended has written 0x01 once, no statement and no 0x04, has written
\* 0x02 once, and has returned (empty stdout, empty stderr).
C31_EmptyBatchReturns ==
    (op.name = "execute" /\ commands = <<>> /\ entered /\ pc = "done")
    => /\ Cardinality(WritesOf(1)) = 1
       /\ StatementCalls = {}
       /\ ResponseReads = {}
       /\ Cardinality(ExitWrites) = 1
       /\ outcome.kind = "return"
       /\ outcome.value = << <<>>, <<>> >>

====
